---- MODULE Spec2Model ----
(***************************************************************************)
(* asentry: a monitor of the JPL Sentry catalogue of impact threats.       *)
(*                                                                         *)
(* The repository holds two revisions of the program: firmware/code.py     *)
(* (the released firmware) and code.py (an earlier revision).  The model   *)
(* follows both; the variable rev says which one is running.               *)
(*                                                                         *)
(* Text is modelled as a sequence of one-character strings, so that        *)
(* wrapping, concatenation and float() work on what the code works on.     *)
(***************************************************************************)
EXTENDS Integers, Sequences, FiniteSets, TLC

VARIABLES
    rev,             \* which revision runs: "firmware" or "root"
    feed,            \* the snapshots the service returns during this run
    response,        \* what the last fetch got: status and signature
    lapse,           \* ids of the snapshot fetched last, ids fetched earlier
                     \* that it does not list, and ids it lists again
    pc,              \* position of the single thread of control
    saved_objects,   \* the baseline snapshot
    latest_objects,  \* the snapshot of the current poll cycle
    updates,         \* result of the last check_for_updates
    lines,           \* WrappedTextDisplay.lines
    offset,          \* WrappedTextDisplay.offset
    labels,          \* text of the max_lines Label rows of the group
    text,            \* WrappedTextDisplay.text
    root_group,      \* display.root_group
    events,          \* button.events, the keypad event queue
    button_down,     \* physical state of the push button
    clock,           \* value of the last ticks_ms() read
    elapsed,         \* real milliseconds since the wait call was entered
    max_time,        \* wait_button_scroll_text parameter
    screen_time,     \* wait_button_scroll_text parameter (zeroed once fired)
    scroll_time,     \* wait_button_scroll_text local: scroll deadline
    timeout,         \* wait_button_scroll_text local: max-wait deadline
    screen_timeout,  \* wait_button_scroll_text local: screen-clear deadline
    wait_exit,       \* which break ended the last wait: "pressed"/"timeout"
    wait_log,        \* what the last step of the wait did
    n_clears,        \* screen clears done by the current wait call
    scroll_at,       \* elapsed at the last scroll advance (0: at entry)
    alert_wav,       \* the loaded alert clip, or None
    n_played,        \* audio.play calls of the current poll cycle
    cycle            \* path of the current poll cycle: "alert"/"idle"

vars == <<rev, feed, response, lapse, pc, saved_objects, latest_objects, updates, lines, offset,
          labels, text, root_group, events, button_down, clock, elapsed,
          max_time, screen_time, scroll_time, timeout, screen_timeout,
          wait_exit, wait_log, n_clears, scroll_at, alert_wav, n_played,
          cycle>>

dataVars == <<saved_objects, latest_objects, updates>>
displayVars == <<lines, offset, labels, text>>
buttonVars == <<events, button_down>>
waitVars == <<clock, elapsed, max_time, screen_time, scroll_time, timeout,
              screen_timeout, wait_exit, wait_log, n_clears, scroll_at>>

Revs == {"firmware", "root"}

\* no snapshot was fetched yet
NoLapse == [last |-> {}, dropped |-> {}, returned |-> {}]

\* no fetch was made yet
NoResponse == [status |-> 0, source |-> "", version |-> ""]

\* button.events.get() with an empty queue
NoEvent == "none"

\* Python's None; no text equals it (a text holds one-character strings).
None == <<"None">>

(***************************************************************************)
(* Bounds of the model.                                                    *)
(***************************************************************************)
MaxObjects == 2     \* records per fetched snapshot
FracDigits == 3     \* decimal places float() keeps
MaxQueue == 2       \* events held by the keypad queue
MaxShort == 12000   \* ms a wait is followed on either side of the idle gap
MaxBuf == 8         \* lines the buffer of a display driven by hand holds
IdleGap == 3590000  \* one long stretch of time inside a wait, in ms

(***************************************************************************)
(* Program constants.                                                      *)
(***************************************************************************)
check_interval == 3600
display_time == 10
line_spacing == 12
display_width == 128
display_height == 64
glyph_width == 6
short_wait_ms == 1000
TicksPeriod == 536870912

scroll_wait_ms == IF rev = "firmware" THEN 6000 ELSE 5000

(***************************************************************************)
(* float(): parse of a decimal text [-]digits[.digits], as a fixed-point   *)
(* integer scaled by 10^FracDigits.                                        *)
(***************************************************************************)
Digits == {"0", "1", "2", "3", "4", "5", "6", "7", "8", "9"}

DigitVal(c) ==
    CASE c = "0" -> 0 [] c = "1" -> 1 [] c = "2" -> 2 [] c = "3" -> 3
      [] c = "4" -> 4 [] c = "5" -> 5 [] c = "6" -> 6 [] c = "7" -> 7
      [] c = "8" -> 8 [] c = "9" -> 9

RECURSIVE DigitsVal(_)
DigitsVal(s) ==
    IF s = <<>> THEN 0
    ELSE 10 * DigitsVal(SubSeq(s, 1, Len(s) - 1)) + DigitVal(s[Len(s)])

\* position of the first "." in s, or Len(s) + 1
DotPos(s) ==
    IF \E i \in 1..Len(s) : s[i] = "."
    THEN CHOOSE i \in 1..Len(s) : s[i] = "." /\ \A j \in 1..(i - 1) : s[j] # "."
    ELSE Len(s) + 1

Unsigned(s) == IF s # <<>> /\ s[1] = "-" THEN SubSeq(s, 2, Len(s)) ELSE s
IntPart(s) == SubSeq(Unsigned(s), 1, DotPos(Unsigned(s)) - 1)
FracPart(s) == SubSeq(Unsigned(s), DotPos(Unsigned(s)) + 1, Len(Unsigned(s)))

\* the texts float() accepts in this model; anything else raises ValueError
IsFloatText(s) ==
    /\ s # None
    /\ \A i \in 1..Len(IntPart(s)) : IntPart(s)[i] \in Digits
    /\ \A i \in 1..Len(FracPart(s)) : FracPart(s)[i] \in Digits
    /\ Len(IntPart(s)) + Len(FracPart(s)) > 0
    /\ Len(FracPart(s)) <= FracDigits

float(s) ==
    LET mag == DigitsVal(IntPart(s)) * (10 ^ FracDigits)
               + DigitsVal(FracPart(s)) * (10 ^ (FracDigits - Len(FracPart(s))))
    IN IF s[1] = "-" THEN 0 - mag ELSE mag

(***************************************************************************)
(* Object records.  A record is a Python dict: a function from keys to     *)
(* values; check_for_updates adds the key "is_new".  Only the keys the     *)
(* program reads are kept.                                                 *)
(***************************************************************************)
Id1950DA == "a0029075"
IdBennu == "a0101955"

FullName(id) ==
    CASE id = "a0029075" -> <<"2", "9", "0", "7", "5", " ", "(", "1", "9", "5", "0", " ", "D", "A", ")">>
      [] id = "a0101955" -> <<"1", "0", "1", "9", "5", "5", " ", "B", "e", "n", "n", "u", " ", "(", "1", "9", "9", "9", " ", "R", "Q", "3", "6", ")">>
      [] id = "bJ79X00B" -> <<"(", "1", "9", "7", "9", " ", "X", "B", ")">>
      [] id = "bK00SY4G" -> <<"(", "2", "0", "0", "0", " ", "S", "G", "3", "4", "4", ")">>
      [] id = "bK08J03L" -> <<"(", "2", "0", "0", "8", " ", "J", "L", "3", ")">>
      [] id = "bK07F03T" -> <<"(", "2", "0", "0", "7", " ", "F", "T", "3", ")">>

Range(id) ==
    CASE id = "a0029075" -> <<"2", "8", "8", "0", "-", "2", "8", "8", "0">>
      [] id = "a0101955" -> <<"2", "1", "7", "8", "-", "2", "2", "9", "0">>
      [] id = "bJ79X00B" -> <<"2", "0", "5", "6", "-", "2", "1", "1", "3">>
      [] id = "bK00SY4G" -> <<"2", "0", "6", "9", "-", "2", "1", "2", "2">>
      [] id = "bK08J03L" -> <<"2", "0", "2", "7", "-", "2", "1", "2", "2">>
      [] id = "bK07F03T" -> <<"2", "0", "2", "4", "-", "2", "1", "1", "9">>

Object(id, ps, ts) ==
    [id |-> id, fullname |-> FullName(id), range |-> Range(id),
     ps_cum |-> ps, ts_max |-> ts]

\* object['is_new'] = b
SetIsNew(obj, b) ==
    [k \in DOMAIN obj \cup {"is_new"} |-> IF k = "is_new" THEN b ELSE obj[k]]

HasIsNew(obj) == "is_new" \in DOMAIN obj

\* the record as it was fetched
Raw(obj) == [k \in DOMAIN obj \ {"is_new"} |-> obj[k]]
RawAll(objs) == [i \in 1..Len(objs) |-> Raw(objs[i])]

IdsOf(objs) == {objs[i].id : i \in 1..Len(objs)}

\* the values the feed sends for the compared fields
FeedIds == {Id1950DA, IdBennu}
PsCumTexts == {<<"-", "2", ".", "0", "5">>,
               <<"-", "2", ".", "0", "5", "0">>,
               <<"-", "0", ".", "9", "3">>}
TsMaxValues == {None, <<"0">>, <<"1">>}

FeedObjects == {Object(id, ps, ts) : id \in FeedIds, ps \in PsCumTexts, ts \in TsMaxValues}

\* snapshots: ids are unique within one snapshot
SnapshotsOf(objs) ==
    UNION {{s \in [1..n -> objs] :
              \A i, j \in 1..n : i # j => s[i].id # s[j].id} : n \in 0..MaxObjects}

Snapshots == SnapshotsOf(FeedObjects)

(***************************************************************************)
(* check_for_updates                                                       *)
(***************************************************************************)
Found(saved, object) == SelectSeq(saved, LAMBDA old : old.id = object.id)

\* Increased with "not lower" in place of "higher"
IncreasedOrSame(object, old_obj) ==
    \/ float(object.ps_cum) >= float(old_obj.ps_cum)
    \/ (object.ts_max # None /\ old_obj.ts_max = None)
    \/ (object.ts_max # None /\ old_obj.ts_max # None
        /\ float(object.ts_max) > float(old_obj.ts_max))

\* Increased with a missing ts_max taken as zero
IncreasedNullAsZero(object, old_obj) ==
    LET ts(o) == IF o.ts_max = None THEN 0 ELSE float(o.ts_max)
    IN \/ float(object.ps_cum) > float(old_obj.ps_cum)
       \/ ts(object) > ts(old_obj)

Increased(object, old_obj) ==
    \/ float(object.ps_cum) > float(old_obj.ps_cum)
    \/ (object.ts_max # None /\ old_obj.ts_max = None)
    \/ (object.ts_max # None /\ old_obj.ts_max # None
        /\ float(object.ts_max) > float(old_obj.ts_max))

\* Visit that reports only objects seen before
VisitSeenOnly(saved, object) ==
    LET found == Found(saved, object)
    IN IF Len(found) = 0
       THEN [object |-> object, changed |-> FALSE]
       ELSE IF Increased(object, found[1])
            THEN [object |-> SetIsNew(object, FALSE), changed |-> TRUE]
            ELSE [object |-> object, changed |-> FALSE]

\* Visit that reports a record only while it carries no is_new mark
VisitOncePerRecord(saved, object) ==
    LET found == Found(saved, object)
    IN IF HasIsNew(object)
       THEN [object |-> object, changed |-> FALSE]
       ELSE IF Len(found) = 0
            THEN [object |-> SetIsNew(object, TRUE), changed |-> TRUE]
            ELSE IF Increased(object, found[1])
                 THEN [object |-> SetIsNew(object, FALSE), changed |-> TRUE]
                 ELSE [object |-> object, changed |-> FALSE]

\* Visit that writes is_new = False into a matched record it does not report
VisitMarksAll(saved, object) ==
    LET found == Found(saved, object)
    IN IF Len(found) = 0
       THEN [object |-> SetIsNew(object, TRUE), changed |-> TRUE]
       ELSE [object |-> SetIsNew(object, FALSE),
             changed |-> Increased(object, found[1])]

\* one pass of the loop body: the record as the loop leaves it, and whether
\* it was appended to changed_objects
Visit(saved, object) ==
    LET found == Found(saved, object)
    IN IF Len(found) = 0
       THEN [object |-> SetIsNew(object, TRUE), changed |-> TRUE]
       ELSE IF Increased(object, found[1])
            THEN [object |-> SetIsNew(object, FALSE), changed |-> TRUE]
            ELSE [object |-> object, changed |-> FALSE]

\* a list that takes a changed record at its front
CollectFront(changed_objects, v) ==
    IF v.changed THEN <<v.object>> \o changed_objects ELSE changed_objects

\* changed_objects.append(object), in the branches that report
Collect(changed_objects, v) ==
    IF v.changed THEN Append(changed_objects, v.object) ELSE changed_objects

RECURSIVE cfu_loop(_, _, _, _)
cfu_loop(saved, latest, i, changed_objects) ==
    IF i > Len(latest)
    THEN [latest |-> latest, changed_objects |-> changed_objects]
    ELSE LET v == Visit(saved, latest[i])
         IN cfu_loop(saved, [latest EXCEPT ![i] = v.object], i + 1,
                     Collect(changed_objects, v))

\* result: the returned list, and latest_objects as the call leaves it
\* (the records of latest are marked in place)
check_for_updates(saved, latest) == cfu_loop(saved, latest, 1, <<>>)

(***************************************************************************)
(* adafruit_display_text.wrap_text_to_pixels(string, display.width, FONT): *)
(* the library's word wrap, for a fixed-pitch font.  Words wider than the  *)
(* display (which the library hyphenates) do not occur in the texts of     *)
(* this model.                                                             *)
(***************************************************************************)
measure(s) == glyph_width * Len(s)

RECURSIVE SplitAcc(_, _, _, _)
SplitAcc(s, sep, cur, acc) ==
    IF s = <<>> THEN Append(acc, cur)
    ELSE IF Head(s) = sep
         THEN SplitAcc(Tail(s), sep, <<>>, Append(acc, cur))
         ELSE SplitAcc(Tail(s), sep, Append(cur, Head(s)), acc)

\* str.split(sep)
Split(s, sep) == SplitAcc(s, sep, <<>>, <<>>)

WrapWord(st, word, index, max_width) ==
    LET wwidth == measure(word)
        swidth == measure(<<" ">>)
    IN IF st.firstword
       THEN [st EXCEPT !.partial = @ \o word, !.firstword = FALSE,
                       !.width = @ + wwidth]
       ELSE IF st.width + swidth + wwidth < max_width
            THEN [st EXCEPT !.partial = @ \o (IF index > 0 THEN <<" ">> ELSE <<>>) \o word,
                            !.width = @ + wwidth + swidth]
            ELSE [st EXCEPT !.lines = Append(@, st.partial),
                            !.partial = word, !.width = wwidth]

RECURSIVE WrapWords(_, _, _, _)
WrapWords(st, words, i, max_width) ==
    IF i > Len(words) THEN st
    ELSE WrapWords(WrapWord(st, words[i], i - 1, max_width), words, i + 1, max_width)

RECURSIVE WrapLines(_, _, _, _)
WrapLines(st, input, i, max_width) ==
    IF i > Len(input) THEN st
    ELSE LET w == WrapWords(st, Split(input[i], " "), 1, max_width)
         IN WrapLines([w EXCEPT !.lines = Append(@, w.partial),
                                !.partial = <<>>, !.width = 0],
                      input, i + 1, max_width)

wrap_text_to_pixels(string, max_width) ==
    WrapLines([lines |-> <<>>, partial |-> <<>>, width |-> 0, firstword |-> TRUE],
              Split(string, "\n"), 1, max_width).lines

(***************************************************************************)
(* WrappedTextDisplay.  The object is the record                           *)
(* [lines, offset, labels, text]; its methods are operators that return    *)
(* the object as the method leaves it.                                     *)
(***************************************************************************)
max_lines == display_height \div line_spacing

\* __init__
WrappedTextDisplay ==
    [lines |-> <<<<>>>>, offset |-> 0,
     labels |-> [i \in 1..max_lines |-> <<>>], text |-> <<>>]

max_offset(wt) ==
    IF Len(wt.lines) - max_lines > 0 THEN Len(wt.lines) - max_lines ELSE 0

on_last_line(wt) == wt.offset = max_offset(wt)

\* a scroll to the last line of the buffer
ScrollToLast(wt) == [wt EXCEPT !.offset = Len(wt.lines) - 1]

scroll_to_end(wt) == [wt EXCEPT !.offset = max_offset(wt)]

\* a scroll that does not go back to the top
ScrollNoWrap(wt) == [wt EXCEPT !.offset = wt.offset + 1]

scroll_next_line(wt) ==
    [wt EXCEPT !.offset = (wt.offset + 1) % (max_offset(wt) + 1)]

set_text(wt, t) ==
    [wt EXCEPT !.text = t, !.lines = wrap_text_to_pixels(t, display_width),
               !.offset = 0]

\* add_text without the scroll to the end
AddTextNoScroll(wt, new_text) ==
    LET t == IF wt.lines # <<>> THEN wt.lines[Len(wt.lines)] \o new_text
             ELSE new_text
        kept == IF wt.lines # <<>> THEN SubSeq(wt.lines, 1, Len(wt.lines) - 1)
                ELSE <<>>
    IN [wt EXCEPT !.lines = kept \o wrap_text_to_pixels(t, display_width)]

add_text(wt, new_text) ==
    LET t == IF wt.lines # <<>> THEN wt.lines[Len(wt.lines)] \o new_text
             ELSE new_text
        kept == IF wt.lines # <<>> THEN SubSeq(wt.lines, 1, Len(wt.lines) - 1)
                ELSE <<>>
    IN scroll_to_end([wt EXCEPT !.lines = kept \o wrap_text_to_pixels(t, display_width)])

\* the text row i (0-based) shows after a refresh
RowText(wt, i) ==
    IF i + wt.offset >= Len(wt.lines) THEN <<>> ELSE wt.lines[i + wt.offset + 1]

\* a refresh that draws the buffer from its first line
RefreshFromTop(wt) ==
    [wt EXCEPT !.labels = [i \in 1..max_lines |->
                              IF i > Len(wt.lines) THEN <<>> ELSE wt.lines[i]]]

refresh(wt) ==
    [wt EXCEPT !.labels = [i \in 1..max_lines |-> RowText(wt, i - 1)]]

\* the rows whose label a refresh writes
RefreshWrites(wt) == {i \in 1..max_lines : RowText(wt, i - 1) # wt.labels[i]}

show(wt, t) == refresh(set_text(wt, t))

add_show(wt, new_text) == refresh(add_text(wt, new_text))

(***************************************************************************)
(* display_updates                                                         *)
(***************************************************************************)
\* str(): what an f-string prints for a text or for None
Str(v) == IF v = None THEN <<"N", "o", "n", "e">> ELSE v

ThreatKind(object) ==
    IF object.is_new THEN <<"N", "E", "W">>
    ELSE <<"I", "N", "C", "R", "E", "A", "S", "E", "D">>

RECURSIVE du_loop(_, _, _, _)
du_loop(wt, objects, i, nl) ==
    IF i > Len(objects) THEN wt
    ELSE LET object == objects[i]
             w1 == add_text(wt, nl)
             w2 == add_text(w1, ThreatKind(object) \o <<" ", "T", "H", "R", "E", "A", "T", "!", "\n">>)
             w3 == add_text(w2, object.fullname \o <<"\n">>)
             w4 == add_text(w3, <<"Y", "e", "a", "r", ":", " ">> \o object.range \o <<"\n">>)
             w5 == add_text(w4, <<"T", "h", "r", "e", "a", "t", " ", "l", "e", "v", "e", "l", ":", " ">>
                                \o Str(object.ts_max))
         IN du_loop(w5, objects, i + 1, <<"\n">>)

display_updates(wt, objects) == refresh(du_loop(set_text(wt, <<>>), objects, 1, <<>>))

(***************************************************************************)
(* adafruit_ticks: the millisecond counter wraps at TicksPeriod.           *)
(***************************************************************************)
ticks_add(ticks, delta) == (ticks + delta) % TicksPeriod

ticks_diff(ticks1, ticks2) ==
    LET half == TicksPeriod \div 2
        diff == (ticks1 - ticks2) % TicksPeriod
    IN ((diff + half) % TicksPeriod) - half

\* a comparison of the two counter values as plain integers
TicksLessPlain(ticks1, ticks2) == ticks1 < ticks2

ticks_less(ticks1, ticks2) == ticks_diff(ticks1, ticks2) < 0

(***************************************************************************)
(* Specification of check_for_updates alone: every pair of snapshots.      *)
(***************************************************************************)
Idle ==
    /\ lines = WrappedTextDisplay.lines /\ offset = WrappedTextDisplay.offset
    /\ labels = WrappedTextDisplay.labels /\ text = WrappedTextDisplay.text
    /\ root_group = "none"
    /\ events = <<>>
    /\ clock = 0 /\ elapsed = 0 /\ max_time = 0 /\ screen_time = 0
    /\ scroll_time = 0 /\ timeout = 0 /\ screen_timeout = 0
    /\ wait_exit = "none"
    /\ wait_log = [event |-> NoEvent, deadline |-> FALSE, cleared |-> FALSE,
                   scrolled |-> FALSE, flushed |-> FALSE]
    /\ n_clears = 0 /\ scroll_at = 0
    /\ response = NoResponse
    /\ lapse = NoLapse
    /\ alert_wav = None /\ n_played = 0 /\ cycle = "none"

InitDiff ==
    /\ rev \in Revs
    /\ feed = {}
    /\ pc = "diff_call"
    /\ saved_objects \in Snapshots
    /\ latest_objects \in Snapshots
    /\ updates = <<>>
    /\ button_down = FALSE
    /\ Idle

CallDiff ==
    /\ pc = "diff_call"
    /\ LET r == check_for_updates(saved_objects, latest_objects)
       IN /\ updates' = r.changed_objects
          /\ latest_objects' = r.latest
    /\ pc' = "diff_done"
    /\ UNCHANGED <<rev, feed, response, lapse, saved_objects, displayVars, root_group, buttonVars,
                   waitVars, alert_wav, n_played, cycle>>

\* the same call once more, on the lists as the first call left them
CallAgain ==
    /\ pc = "diff_done"
    /\ LET r == check_for_updates(saved_objects, latest_objects)
       IN /\ updates' = r.changed_objects
          /\ latest_objects' = r.latest
    /\ pc' = "diff_again"
    /\ UNCHANGED <<rev, feed, response, lapse, saved_objects, displayVars, root_group,
                   buttonVars, waitVars, alert_wav, n_played, cycle>>

NextDiff == CallDiff \/ CallAgain

SpecDiff == InitDiff /\ [][NextDiff]_vars

(***************************************************************************)
(* The push button and its keypad event queue.  The keypad scanner posts   *)
(* an event for every transition of the button, at any time; an event      *)
(* that finds the queue full is dropped.                                   *)
(***************************************************************************)
Post(queue, event) == IF Len(queue) < MaxQueue THEN Append(queue, event) ELSE queue

\* button.events.get()
EventsGet(queue) == IF queue = <<>> THEN NoEvent ELSE Head(queue)
EventsRest(queue) == IF queue = <<>> THEN <<>> ELSE Tail(queue)

\* a queue that keeps its events where the program clears it
EventsKept(queue) == queue

\* button.events.clear()
EventsClear(queue) == <<>>

\* a pressed event is waiting in the queue
HasPress(queue) == \E i \in 1..Len(queue) : queue[i] = "pressed"

\* any event taken as a press
IsAnyEvent(event) == event # NoEvent

\* (event := button.events.get()) and event.pressed
IsPressed(event) == event = "pressed"

Press ==
    /\ pc \in {"startup", "fetch", "diff", "wait_entry", "wait", "except", "halted"}
    /\ ~button_down
    /\ button_down' = TRUE
    /\ events' = Post(events, "pressed")
    /\ UNCHANGED <<rev, feed, response, lapse, pc, dataVars, displayVars, root_group, waitVars,
                   alert_wav, n_played, cycle>>

Release ==
    /\ pc \in {"startup", "fetch", "diff", "wait_entry", "wait", "except", "halted"}
    /\ button_down
    /\ button_down' = FALSE
    /\ events' = Post(events, "released")
    /\ UNCHANGED <<rev, feed, response, lapse, pc, dataVars, displayVars, root_group, waitVars,
                   alert_wav, n_played, cycle>>

(***************************************************************************)
(* wait_button_scroll_text.  The clock is the millisecond counter as the   *)
(* program last saw it: what it is when the call is entered, then what     *)
(* ticks_ms() returned last; every read finds it advanced by some step.    *)
(* elapsed counts the same steps without wrapping.                         *)
(***************************************************************************)
StartTicks == {0, TicksPeriod - 3000}
\* the counter when the running program enters a wait: close to its wrap
PollTicks == {TicksPeriod - 3000}
TickSteps == {0, 1000, 5000, IdleGap}
InnerSteps == {0, 1000}

Wt == [lines |-> lines, offset |-> offset, labels |-> labels, text |-> text]

SetDisplay(wt) ==
    /\ lines' = wt.lines /\ offset' = wt.offset
    /\ labels' = wt.labels /\ text' = wt.text

\* the stretch of a wait the model follows
InWindow(e) == e <= MaxShort \/ (e >= IdleGap /\ e <= IdleGap + MaxShort)

\* the steps the clock can have made at a read: the idle gap stands for a
\* long run of iterations in which nothing is due, so it is taken only while
\* the display does not scroll
StepOk(d) == InWindow(elapsed + d) /\ (d >= IdleGap => max_offset(Wt) = 0)

Dwell(wt) == IF on_last_line(wt) THEN scroll_wait_ms ELSE short_wait_ms

\* max_time and ticks_less(timeout, now)
TimedOut(now) == max_time # 0 /\ ticks_less(timeout, now)

\* screen_time and ticks_less(screen_timeout, now)
ClearDue(now) == screen_time # 0 /\ ticks_less(screen_timeout, now)

\* a scroll test that leaves out max_offset()
ScrollDueAnyLength(wt, now) == ticks_less(scroll_time, now)

\* wrapped_text.max_offset() > 0 and ticks_less(scroll_time, ticks_ms())
ScrollDue(wt, now) == max_offset(wt) > 0 /\ ticks_less(scroll_time, now)

\* entry of the call: the queue is cleared and the deadlines are set
WaitEntry ==
    /\ pc = "wait_entry"
    /\ \E d \in InnerSteps :
          \* the earlier revision reads the clock a second time for timeout
          /\ rev = "firmware" => d = 0
          /\ scroll_time' = ticks_add(clock, Dwell(Wt))
          /\ timeout' = ticks_add(ticks_add(clock, d), max_time * 1000)
          /\ screen_timeout' = IF rev = "firmware"
                               THEN ticks_add(clock, screen_time * 1000) ELSE 0
          /\ clock' = ticks_add(clock, d)
          /\ elapsed' = d
    /\ events' = EventsClear(events)
    /\ n_clears' = 0 /\ scroll_at' = 0
    /\ wait_exit' = "none"
    /\ wait_log' = [event |-> NoEvent, deadline |-> FALSE, cleared |-> FALSE,
                    scrolled |-> FALSE, flushed |-> HasPress(events)]
    /\ pc' = "wait"
    /\ UNCHANGED <<rev, feed, response, lapse, dataVars, displayVars, root_group, button_down,
                   max_time, screen_time, alert_wav, n_played, cycle>>

\* the break statements: control returns to the caller, and the deadlines
\* (locals of the call) are gone
WaitReturn(how, event, deadline) ==
    /\ pc' = "fetch"
    /\ wait_exit' = how
    /\ wait_log' = [event |-> event, deadline |-> deadline, cleared |-> FALSE,
                    scrolled |-> FALSE, flushed |-> FALSE]
    /\ scroll_time' = 0 /\ timeout' = 0 /\ screen_timeout' = 0
    /\ scroll_at' = 0
    /\ UNCHANGED <<displayVars, max_time, screen_time, n_clears>>

\* a screen clear that stays armed
ScreenTimeKept(clear) == screen_time

\* screen_time = 0, once the screen was cleared
ScreenTimeAfter(clear) == IF clear THEN 0 ELSE screen_time

\* the rest of an iteration of the firmware loop, after the two breaks:
\* screen clear, then scroll
WaitWork(event, now, d2) ==
    LET clear == ClearDue(now)
        wt1 == IF clear THEN show(Wt, <<>>) ELSE Wt
        reads == max_offset(wt1) > 0
        now2 == ticks_add(now, d2)
        scroll == ScrollDue(wt1, now2)
        wt2 == IF scroll THEN refresh(scroll_next_line(wt1)) ELSE wt1
    IN /\ reads \/ d2 = 0
       /\ lines' = wt2.lines /\ offset' = wt2.offset
       /\ labels' = wt2.labels /\ text' = wt2.text
       /\ screen_time' = ScreenTimeAfter(clear)
       /\ n_clears' = IF clear THEN n_clears + 1 ELSE n_clears
       /\ scroll_time' = IF scroll THEN ticks_add(scroll_time, Dwell(wt2))
                         ELSE scroll_time
       /\ clock' = now2
       /\ scroll_at' = IF scroll THEN elapsed' ELSE scroll_at
       /\ wait_log' = [event |-> event, deadline |-> TRUE, cleared |-> clear,
                       scrolled |-> scroll, flushed |-> FALSE]
       /\ pc' = "wait"
       /\ UNCHANGED <<wait_exit, max_time, timeout, screen_timeout>>

\* one iteration of the loop of firmware/code.py
WaitIterFirmware ==
    /\ pc = "wait" /\ rev = "firmware"
    /\ events' = EventsRest(events)
    /\ LET event == EventsGet(events)
       IN IF IsPressed(event)
          THEN /\ WaitReturn("pressed", event, FALSE)
               /\ UNCHANGED <<clock, elapsed>>
          ELSE \E d1 \in TickSteps, d2 \in InnerSteps :
                 /\ StepOk(d1) /\ InWindow(elapsed + d1 + d2)
                 /\ LET now == ticks_add(clock, d1)
                    IN IF TimedOut(now)
                       THEN /\ d2 = 0
                            /\ WaitReturn("timeout", event, TRUE)
                            /\ clock' = now
                            /\ elapsed' = elapsed + d1
                       ELSE /\ elapsed' = elapsed + d1 + d2
                            /\ WaitWork(event, now, d2)
    /\ UNCHANGED <<rev, feed, response, lapse, dataVars, root_group, button_down, alert_wav,
                   n_played, cycle>>

\* one iteration of the loop of code.py: the deadline is looked at first,
\* and only when max_time is given is the clock read for it (d1); the
\* scroll test reads the clock again (d2)
WaitIterRoot ==
    /\ pc = "wait" /\ rev = "root"
    /\ \E d1 \in TickSteps, d2 \in TickSteps :
          /\ StepOk(d1) /\ StepOk(d2) /\ InWindow(elapsed + d1 + d2)
          /\ IF max_time = 0 THEN d1 = 0 ELSE d2 \in InnerSteps
          /\ LET now == ticks_add(clock, d1)
                 event == EventsGet(events)
             IN IF TimedOut(now)
                THEN /\ d2 = 0
                     /\ WaitReturn("timeout", NoEvent, TRUE)
                     /\ events' = events
                     /\ clock' = now
                     /\ elapsed' = elapsed + d1
                ELSE /\ events' = EventsRest(events)
                     /\ IF IsPressed(event)
                        THEN /\ d2 = 0
                             /\ WaitReturn("pressed", event, max_time # 0)
                             /\ clock' = now
                             /\ elapsed' = elapsed + d1
                        ELSE /\ elapsed' = elapsed + d1 + d2
                             /\ WaitWork(event, now, d2)
    /\ UNCHANGED <<rev, feed, response, lapse, dataVars, root_group, button_down, alert_wav,
                   n_played, cycle>>

(***************************************************************************)
(* Specification of wait_button_scroll_text alone: the call is made with   *)
(* every parameter and on a display that fits or scrolls, with the button  *)
(* up or down and events left in the queue.                                *)
(***************************************************************************)
MaxTimes == {0, 5, check_interval}
ScreenTimes == {0, display_time}

ShownObject(id, ts, is_new) == SetIsNew(Object(id, <<"-", "2", ".", "0", "5">>, ts), is_new)

WaitDisplays ==
    {show(WrappedTextDisplay, <<"\n", "\n", "N", "o", " ", "n", "e", "w", " ", "t", "h", "r", "e", "a", "t", "s">>),
     display_updates(WrappedTextDisplay, <<ShownObject(Id1950DA, None, TRUE)>>),
     display_updates(WrappedTextDisplay,
                     <<ShownObject(Id1950DA, <<"0">>, FALSE), ShownObject(IdBennu, None, TRUE)>>)}

Queues == UNION {[1..n -> {"pressed", "released"}] : n \in 0..MaxQueue}

InitWait ==
    /\ rev \in Revs
    /\ feed = {}
    /\ pc = "wait_entry"
    /\ saved_objects = <<>> /\ latest_objects = <<>> /\ updates = <<>>
    /\ \E wt \in WaitDisplays :
          lines = wt.lines /\ offset = wt.offset /\ labels = wt.labels /\ text = wt.text
    /\ root_group = "wrapped_text"
    /\ events \in Queues /\ button_down \in BOOLEAN
    /\ clock \in StartTicks /\ elapsed = 0
    /\ max_time \in MaxTimes
    /\ screen_time \in (IF rev = "firmware" THEN ScreenTimes ELSE {0})
    /\ scroll_time = 0 /\ timeout = 0 /\ screen_timeout = 0
    /\ wait_exit = "none"
    /\ wait_log = [event |-> NoEvent, deadline |-> FALSE, cleared |-> FALSE,
                   scrolled |-> FALSE, flushed |-> FALSE]
    /\ n_clears = 0 /\ scroll_at = 0
    /\ response = NoResponse
    /\ lapse = NoLapse
    /\ alert_wav = None /\ n_played = 0 /\ cycle = "none"

NextWait == WaitEntry \/ WaitIterFirmware \/ WaitIterRoot \/ Press \/ Release

SpecWait == InitWait /\ [][NextWait]_vars

(***************************************************************************)
(* Specification of WrappedTextDisplay alone: the methods are called in    *)
(* any order on a fresh object.  pc names the method that returned last.   *)
(***************************************************************************)
WordA == <<"a", "a", "a", "a", "a", "a", "a", "a", "a", "a", "a">>
WordB == <<"b", "b", "b", "b", "b", "b", "b", "b", "b", "b", "b">>

\* the texts handed to the methods: nothing, a line break, and a text of
\* more lines than the display has rows, the last two made by the wrap
DisplayTexts ==
    {<<>>, <<"\n">>,
     <<"1", "\n", "2", "\n", "3", "\n", "4", "\n", "5", "\n">> \o WordA \o <<" ">> \o WordB}

\* the buffers the model follows: no more than MaxBuf lines, and no line
\* wider than the display
Followed(wt) ==
    /\ Len(wt.lines) <= MaxBuf
    /\ \A i \in 1..Len(wt.lines) : measure(wt.lines[i]) <= display_width

InitDisplay ==
    /\ rev \in Revs
    /\ feed = {}
    /\ pc = "__init__"
    /\ saved_objects = <<>> /\ latest_objects = <<>> /\ updates = <<>>
    /\ button_down = FALSE
    /\ Idle

Method(name, wt) ==
    /\ pc \in {"__init__", "set_text", "add_text", "show", "add_show",
                "scroll_next_line", "scroll_to_end", "refresh"}
    /\ Followed(wt)
    /\ pc' = name
    /\ SetDisplay(wt)
    /\ UNCHANGED <<rev, feed, response, lapse, dataVars, root_group, buttonVars,
                   waitVars, alert_wav, n_played, cycle>>

CallSetText == \E t \in DisplayTexts : Method("set_text", set_text(Wt, t))

CallAddText == \E t \in DisplayTexts : Method("add_text", add_text(Wt, t))

CallShow == \E t \in DisplayTexts : Method("show", show(Wt, t))

CallAddShow == \E t \in DisplayTexts : Method("add_show", add_show(Wt, t))

CallScrollNextLine == Method("scroll_next_line", scroll_next_line(Wt))

CallScrollToEnd == Method("scroll_to_end", scroll_to_end(Wt))

CallRefresh == Method("refresh", refresh(Wt))

NextDisplay ==
    \/ CallSetText \/ CallAddText \/ CallShow \/ CallAddShow
    \/ CallScrollNextLine \/ CallScrollToEnd \/ CallRefresh

SpecDisplay == InitDisplay /\ [][NextDisplay]_vars

(***************************************************************************)
(* The program: startup, the poll loop, and the handler of the outermost   *)
(* try.                                                                    *)
(***************************************************************************)
WaveFile == <<"WaveFile">>

SsidText == <<"w", "l", "a", "n">>

AsentryText == <<"a", "s", "e", "n", "t", "r", "y">>
ConnectingText == <<"C", "o", "n", "n", "e", "c", "t", "i", "n", "g", " ", "t", "o", " ">> \o SsidText

FetchingText ==
    IF rev = "firmware"
    THEN <<"\n", "\n", "F", "e", "t", "c", "h", "i", "n", "g", " ", "d", "a", "t", "a", "\n">>
    ELSE <<"F", "e", "t", "c", "h", "i", "n", "g", " ", "d", "a", "t", "a">>

NoNewThreatsText ==
    IF rev = "firmware"
    THEN <<"\n", "\n", "N", "o", " ", "n", "e", "w", " ", "t", "h", "r", "e", "a", "t", "s">>
    ELSE <<"N", "o", " ", "n", "e", "w", " ", "t", "h", "r", "e", "a", "t", "s">>

\* fetch_dummy_data() of code.py
fetch_dummy_data ==
    <<Object("bJ79X00B", <<"-", "2", ".", "7", "1">>, <<"0">>),
      Object("bK00SY4G", <<"-", "2", ".", "7", "8">>, <<"0">>),
      Object("bK08J03L", <<"-", "2", ".", "8", "6">>, <<"0">>),
      Object("bK07F03T", <<"-", "2", ".", "6", "3">>, <<"0">>),
      Object("a0101955", <<"-", "1", ".", "4", "1">>, None),
      Object("a0029075", <<"-", "2", ".", "0", "5">>, None)>>

\* what the poll loop starts from
InitialBaseline == IF rev = "firmware" THEN <<>> ELSE fetch_dummy_data

\* the snapshots the service returns to the running program
PollPsCum == {<<"-", "2", ".", "0", "5">>, <<"-", "0", ".", "9", "3">>}
PollTsMax == {None}
\* 1950 DA is listed with either ps_cum, Bennu with one
PollObjects ==
    {Object(Id1950DA, ps, ts) : ps \in PollPsCum, ts \in PollTsMax}
       \cup {Object(IdBennu, <<"-", "2", ".", "0", "5">>, ts) : ts \in PollTsMax}
PollData == SnapshotsOf(PollObjects)

ExpectedSource == "NASA/JPL Sentry Data API"
ExpectedVersion == "2.0"
Sources == {ExpectedSource, "other"}
Versions == {ExpectedVersion, "1.0"}
Statuses == {200, 404}

\* a check that takes any version of the payload
ResponseOkAnyVersion(status, source, version) ==
    status = 200 /\ source = ExpectedSource

\* the response passes both raises of fetch_latest_data
ResponseOk(status, source, version) ==
    status = 200 /\ source = ExpectedSource /\ version = ExpectedVersion

\* power-on, with the service returning the snapshots of f
Boot(f) ==
    /\ rev \in Revs
    /\ feed = f
    /\ pc = "startup"
    /\ saved_objects = <<>> /\ latest_objects = <<>> /\ updates = <<>>
    /\ button_down = FALSE
    /\ Idle

Init == Boot(PollData)

\* everything up to the poll loop
Startup ==
    /\ pc = "startup"
    /\ root_group' = "wrapped_text"
    /\ \E wav \in {None, WaveFile}, net \in {"connected", "connects", "fails"} :
          /\ alert_wav' = wav
          /\ SetDisplay(IF net = "connected"
                        THEN show(WrappedTextDisplay, AsentryText)
                        ELSE show(show(WrappedTextDisplay, AsentryText), ConnectingText))
          /\ IF net = "fails"
             THEN pc' = "except" /\ saved_objects' = <<>>
             ELSE pc' = "fetch" /\ saved_objects' = InitialBaseline
    /\ latest_objects' = <<>> /\ updates' = <<>>
    /\ n_played' = 0 /\ cycle' = "none"
    /\ UNCHANGED <<rev, feed, response, lapse, buttonVars, waitVars>>

\* fetch_latest_data, called at the top of the poll loop; a new poll cycle
\* starts, and what the last wait call left behind is forgotten
Fetch ==
    /\ pc = "fetch"
    /\ SetDisplay(show(Wt, FetchingText))
    /\ \E status \in Statuses, source \in Sources, version \in Versions :
          /\ response' = [status |-> status, source |-> source,
                          version |-> version]
          /\ IF ResponseOk(status, source, version)
             THEN /\ pc' = "diff"
                  /\ latest_objects' \in feed
             ELSE /\ pc' = "except"
                  /\ UNCHANGED latest_objects
    /\ n_played' = 0 /\ cycle' = "none"
    /\ clock' = 0 /\ elapsed' = 0 /\ max_time' = 0 /\ screen_time' = 0
    /\ wait_exit' = "none" /\ n_clears' = 0 /\ scroll_at' = 0
    /\ wait_log' = [event |-> NoEvent, deadline |-> FALSE, cleared |-> FALSE,
                    scrolled |-> FALSE, flushed |-> FALSE]
    /\ UNCHANGED <<rev, feed, lapse, saved_objects, updates, root_group, buttonVars,
                   scroll_time, timeout, screen_timeout, alert_wav>>

\* the baseline kept only when something was reported
BaselineIfChanged(saved, r) == IF r.changed_objects # <<>> THEN r.latest ELSE saved

\* a baseline that keeps the records the new snapshot no longer lists
BaselineMerged(saved, r) ==
    r.latest \o SelectSeq(saved, LAMBDA o : o.id \notin IdsOf(r.latest))

\* saved_objects = latest_objects
NewBaseline(saved, r) == r.latest

\* an ALERT wait that also ends after the poll interval
AlertWaitBounded == [max_time |-> check_interval, screen_time |-> 0]

\* wait_button_scroll_text(button)
AlertWait == [max_time |-> 0, screen_time |-> 0]

\* an IDLE wait without a max-wait
IdleWaitUnbounded ==
    [max_time |-> 0,
     screen_time |-> IF rev = "firmware" THEN display_time ELSE 0]

\* wait_button_scroll_text(button, check_interval, display_time); the
\* earlier revision has no screen_time
IdleWait ==
    [max_time |-> check_interval,
     screen_time |-> IF rev = "firmware" THEN display_time ELSE 0]

\* the rest of the loop body up to the call of wait_button_scroll_text:
\* diff, replacement of the baseline, and the ALERT or IDLE display
DiffRoute ==
    /\ pc = "diff"
    /\ LET r == check_for_updates(saved_objects, latest_objects)
       IN /\ updates' = r.changed_objects
          /\ latest_objects' = r.latest
          /\ saved_objects' = NewBaseline(saved_objects, r)
          /\ IF r.changed_objects # <<>>
             THEN /\ SetDisplay(display_updates(Wt, r.changed_objects))
                  /\ n_played' = IF rev = "firmware" /\ alert_wav # None
                                 THEN n_played + 1 ELSE n_played
                  /\ max_time' = AlertWait.max_time
                  /\ screen_time' = AlertWait.screen_time
                  /\ cycle' = "alert"
             ELSE /\ SetDisplay(show(Wt, NoNewThreatsText))
                  /\ n_played' = n_played
                  /\ max_time' = IdleWait.max_time
                  /\ screen_time' = IdleWait.screen_time
                  /\ cycle' = "idle"
    /\ lapse' = [last |-> IdsOf(latest_objects),
                 dropped |-> (lapse.dropped \cup lapse.last) \ IdsOf(latest_objects),
                 returned |-> lapse.dropped \cap IdsOf(latest_objects)]
    /\ pc' = "wait_entry"
    /\ clock' \in PollTicks
    /\ UNCHANGED <<rev, feed, response, root_group, buttonVars, elapsed,
                   scroll_time,
                   timeout, screen_timeout, wait_exit, wait_log, n_clears,
                   scroll_at, alert_wav>>

\* except Exception: the diagnostic surface is shown and the queue cleared
Except ==
    /\ pc = "except"
    /\ root_group' = "terminal"
    /\ events' = EventsClear(events)
    /\ wait_log' = [wait_log EXCEPT !.flushed = HasPress(events)]
    /\ pc' = "halted"
    /\ UNCHANGED <<rev, feed, response, lapse, dataVars, displayVars, button_down, clock,
                   elapsed, max_time, screen_time, scroll_time, timeout,
                   screen_timeout, wait_exit, n_clears, scroll_at, alert_wav,
                   n_played, cycle>>

\* one iteration of the halted loop that takes an event; a pressed event
\* leads to supervisor.reload(), which starts the program afresh
HaltIter ==
    /\ pc = "halted"
    /\ events # <<>>
    /\ IF IsPressed(EventsGet(events))
       THEN /\ pc' = "startup"
            /\ saved_objects' = <<>> /\ latest_objects' = <<>> /\ updates' = <<>>
            /\ SetDisplay(WrappedTextDisplay)
            /\ root_group' = "none"
            /\ events' = <<>>
            /\ clock' = 0 /\ elapsed' = 0 /\ max_time' = 0 /\ screen_time' = 0
            /\ scroll_time' = 0 /\ timeout' = 0 /\ screen_timeout' = 0
            /\ wait_exit' = "none"
            /\ wait_log' = [event |-> NoEvent, deadline |-> FALSE,
                            cleared |-> FALSE, scrolled |-> FALSE, flushed |-> FALSE]
            /\ n_clears' = 0 /\ scroll_at' = 0
            /\ response' = NoResponse /\ lapse' = NoLapse
            /\ alert_wav' = None /\ n_played' = 0 /\ cycle' = "none"
            /\ UNCHANGED <<rev, feed, button_down>>
       ELSE /\ events' = EventsRest(events)
            /\ UNCHANGED <<rev, feed, response, lapse, pc, dataVars, displayVars, root_group,
                           button_down, waitVars, alert_wav, n_played, cycle>>

Next ==
    \/ Startup \/ Fetch \/ DiffRoute
    \/ WaitEntry \/ WaitIterFirmware \/ WaitIterRoot
    \/ Except \/ HaltIter
    \/ Press \/ Release

Spec == Init /\ [][Next]_vars

(***************************************************************************)
(* Properties of check_for_updates (under SpecDiff).                       *)
(***************************************************************************)
DiffStep == pc = "diff_call" /\ pc' = "diff_done"

\* the record of the baseline with the id of obj
OldOf(saved, obj) == saved[CHOOSE k \in 1..Len(saved) : saved[k].id = obj.id]

\* the fetched record obj is in the returned list
Reported(result, obj) == \E i \in 1..Len(result) : Raw(result[i]) = Raw(obj)

\* C1: check_for_updates returns only records of latest; every record of
\* latest whose id does not occur in baseline is in the result; a record
\* that exists only in baseline never appears in the result.
C1_ResultFromLatest ==
    [][DiffStep =>
        /\ \A i \in 1..Len(updates') :
              /\ \E j \in 1..Len(latest_objects) : Raw(updates'[i]) = latest_objects[j]
              /\ \E j \in 1..Len(latest_objects') : updates'[i] = latest_objects'[j]
        /\ \A j \in 1..Len(latest_objects) :
              latest_objects[j].id \notin IdsOf(saved_objects)
                 => Reported(updates', latest_objects[j])
        /\ \A k \in 1..Len(saved_objects) :
              saved_objects[k].id \notin IdsOf(latest_objects)
                 => \A i \in 1..Len(updates') :
                       /\ updates'[i].id # saved_objects[k].id
                       /\ Raw(updates'[i]) # Raw(saved_objects[k])
    ]_vars

\* a diff with a new record, a dropped record, and a result holding the new one
C1_Witness ==
    /\ pc = "diff_done"
    /\ \E j \in 1..Len(latest_objects) :
          /\ latest_objects[j].id \notin IdsOf(saved_objects)
          /\ \E i \in 1..Len(updates) : updates[i] = latest_objects[j]
    /\ \E k \in 1..Len(saved_objects) : saved_objects[k].id \notin IdsOf(latest_objects)

\* the three conditions of the claim, on the numeric values of the texts
C2_Escalation(new, old) ==
    \/ float(new.ps_cum) > float(old.ps_cum)
    \/ (new.ts_max # None /\ old.ts_max = None)
    \/ (new.ts_max # None /\ old.ts_max # None /\ float(new.ts_max) > float(old.ts_max))

\* C2: a record of latest whose id occurs in baseline is in the result iff
\* its ps_cum is strictly higher, or its ts_max is present and the baseline's
\* absent, or both are present and its ts_max is higher; the result is empty
\* when nothing changed.
C2_MatchedIffEscalated ==
    [][DiffStep =>
        /\ \A j \in 1..Len(latest_objects) :
              latest_objects[j].id \in IdsOf(saved_objects)
                 => (Reported(updates', latest_objects[j])
                       <=> C2_Escalation(latest_objects[j],
                                         OldOf(saved_objects, latest_objects[j])))
        /\ (\A j \in 1..Len(latest_objects) :
               \E k \in 1..Len(saved_objects) : latest_objects[j] = Raw(saved_objects[k]))
              => updates' = <<>>
    ]_vars

\* a diff that reports one matched record and leaves out another one whose
\* ps_cum text changed but not its value; and one of an unchanged snapshot
C2_Witness ==
    /\ pc = "diff_done"
    /\ \E j \in 1..Len(latest_objects) :
          /\ latest_objects[j].id \in IdsOf(saved_objects)
          /\ \E i \in 1..Len(updates) : updates[i] = latest_objects[j]
    /\ \E j \in 1..Len(latest_objects) :
          /\ latest_objects[j].id \in IdsOf(saved_objects)
          /\ latest_objects[j].ps_cum # OldOf(saved_objects, latest_objects[j]).ps_cum
          /\ \A i \in 1..Len(updates) : updates[i].id # latest_objects[j].id

\* C3: with ps_cum unchanged, a matched record whose ts_max goes from null to
\* a present value (0 included) is reported; null -> null and present -> null
\* are never reported.
C3_TorinoTriState ==
    [][DiffStep =>
        \A j \in 1..Len(latest_objects) :
           (/\ latest_objects[j].id \in IdsOf(saved_objects)
            /\ float(latest_objects[j].ps_cum)
                 = float(OldOf(saved_objects, latest_objects[j]).ps_cum))
           => LET new == latest_objects[j]
                  old == OldOf(saved_objects, new)
              IN /\ (old.ts_max = None /\ new.ts_max # None)
                       => \E i \in 1..Len(updates') :
                             updates'[i] = SetIsNew(new, FALSE)
                 /\ new.ts_max = None => ~Reported(updates', new)
    ]_vars

\* a matched record with the same ps_cum whose ts_max went from null to "0"
\* and was reported, next to one that went from "0" to null and was not
C3_Witness ==
    /\ pc = "diff_done"
    /\ \E j \in 1..Len(latest_objects) :
          /\ latest_objects[j].id \in IdsOf(saved_objects)
          /\ OldOf(saved_objects, latest_objects[j]).ts_max = None
          /\ latest_objects[j].ts_max = <<"0">>
          /\ float(latest_objects[j].ps_cum)
               = float(OldOf(saved_objects, latest_objects[j]).ps_cum)
          /\ \E i \in 1..Len(updates) : updates[i] = latest_objects[j]
    /\ \E j \in 1..Len(latest_objects) :
          /\ latest_objects[j].id \in IdsOf(saved_objects)
          /\ OldOf(saved_objects, latest_objects[j]).ts_max = <<"0">>
          /\ latest_objects[j].ts_max = None
          /\ ~HasIsNew(latest_objects[j])

(***************************************************************************)
(* Properties of the poll loop (under Spec).                               *)
(***************************************************************************)
\* the step from the diff to the call of the wait
RouteStep == pc = "diff" /\ pc' = "wait_entry"

\* C4: after every diff the baseline is the snapshot just fetched, whether
\* the diff was empty or not; a poll that fetches the snapshot the previous
\* poll fetched yields an empty diff.
C4_BaselineReplaced ==
    [][RouteStep =>
        /\ saved_objects' = latest_objects'
        /\ RawAll(saved_objects') = latest_objects
        /\ latest_objects = RawAll(saved_objects) => (updates' = <<>> /\ cycle' = "idle")
    ]_vars

\* an IDLE cycle of the firmware that left a record in the baseline which
\* was never reported: the baseline was replaced although the diff was empty
C4_Witness ==
    /\ pc = "wait_entry" /\ cycle = "idle" /\ rev = "firmware"
    /\ updates = <<>>
    /\ \E k \in 1..Len(saved_objects) : ~HasIsNew(saved_objects[k])

\* C5: the loop takes the ALERT path (display_updates, then a wait with no
\* max-wait and no screen clear) iff the diff result is non-empty, and
\* otherwise the IDLE path (the no-new-threats message, then a wait with
\* max_wait = the poll interval and screen_clear_after = the idle display
\* time).
C5_RouteByDiff ==
    [][RouteStep =>
        IF updates' # <<>>
        THEN /\ cycle' = "alert"
             /\ lines' = display_updates(Wt, updates').lines
             /\ max_time' = 0 /\ screen_time' = 0
        ELSE /\ cycle' = "idle"
             /\ lines' = show(Wt, NoNewThreatsText).lines
             /\ max_time' = check_interval
             /\ screen_time' = display_time
    ]_vars

\* C6: after an ALERT cycle control comes back to the poll loop only through
\* a pressed event taken inside the wait; the wait never times out.
C6_AlertNeedsPress ==
    /\ cycle = "alert" => wait_exit # "timeout"
    /\ (cycle = "alert" /\ pc \notin {"wait_entry", "wait"})
          => (pc = "fetch" /\ wait_exit = "pressed" /\ wait_log.event = "pressed")

\* an ALERT wait still waiting after more than the poll interval
C6_Witness ==
    /\ pc = "wait" /\ cycle = "alert"
    /\ elapsed > check_interval * 1000

\* the poll loop with its scheduling: the wait loop keeps iterating (an
\* iteration that changes nothing is no step) and the clock advances
\* a run in which the service knows of one object only
OneObjectFeed == SnapshotsOf({Object(Id1950DA, ps, None) : ps \in PollPsCum})

\* an iteration of the wait loop that finds the clock advanced
ClockAdvances == (WaitIterFirmware \/ WaitIterRoot) /\ elapsed' > elapsed

FairSpec ==
    /\ Boot(OneObjectFeed) /\ [][Next]_vars
    /\ WF_vars(WaitIterFirmware) /\ WF_vars(WaitIterRoot)
    /\ WF_vars(ClockAdvances)

\* C7: an IDLE wait eventually returns to the top of the poll loop, where
\* the next statement is the fetch and nothing else can happen; when it
\* returns without a press, the poll interval has elapsed.
C7_IdleWaitEnds ==
    /\ [](cycle = "idle" /\ pc = "fetch" /\ wait_exit # "pressed"
            => /\ wait_exit = "timeout"
               /\ max_time = check_interval
               /\ elapsed > check_interval * 1000)
    /\ [][pc = "fetch" /\ pc' # "fetch"
            => pc' \in {"diff", "except"} /\ cycle' = "none"]_vars
    /\ (pc = "wait" /\ cycle = "idle") ~> (pc = "fetch" /\ cycle = "idle")

\* an IDLE wait that returned on its deadline with no event taken
C7_Witness ==
    /\ pc = "fetch" /\ cycle = "idle" /\ wait_exit = "timeout"
    /\ wait_log.event = NoEvent
    /\ elapsed > check_interval * 1000

(***************************************************************************)
(* Properties of wait_button_scroll_text (under SpecWait).                 *)
(***************************************************************************)
\* a step of the wait loop (the button makes the other steps)
IterStep == pc = "wait" /\ button_down' = button_down

Blank == lines = <<<<>>>> /\ offset = 0 /\ \A i \in 1..max_lines : labels[i] = <<>>

\* C8: the call returns only when a pressed event was taken from the queue,
\* or when max_time is non-zero and more than max_time seconds have passed
\* since entry; a release event, a screen clear or a scroll never ends it.
C8_TwoExits ==
    [][IterStep =>
        /\ pc' # "wait" =>
              \/ /\ wait_exit' = "pressed"
                 /\ events # <<>> /\ Head(events) = "pressed"
                 /\ events' = Tail(events)
              \/ /\ wait_exit' = "timeout"
                 /\ max_time # 0
                 /\ elapsed' > max_time * 1000
        /\ (wait_log'.cleared \/ wait_log'.scrolled) => pc' = "wait"
        /\ (events # <<>> /\ Head(events) = "released" /\ pc' # "wait")
              => (wait_exit' = "timeout" /\ elapsed' > max_time * 1000)
    ]_vars

\* a call with max_time = 5 on a scrolling display, with the button released
\* meanwhile, that returned on its deadline
C8_Witness ==
    /\ pc = "fetch" /\ wait_exit = "timeout"
    /\ max_time = 5 /\ elapsed > 5000
    /\ Len(lines) > max_lines
    /\ wait_log.event = "released"

\* C9: in every iteration the queue is looked at before any deadline: when
\* the next event is a pressed event the call returns in that iteration on
\* the press, the max-wait deadline is not evaluated, and the display is
\* neither cleared nor scrolled.
C9_ButtonFirst ==
    [][(IterStep /\ events # <<>> /\ Head(events) = "pressed") =>
        /\ pc' = "fetch"
        /\ wait_exit' = "pressed"
        /\ ~wait_log'.deadline
        /\ UNCHANGED <<displayVars, n_clears>>
    ]_vars

\* C10: the screen clear fires at most once in a call, only when screen_time
\* was given and not before that time has passed since entry; it leaves the
\* display blank and the call goes on waiting.
C10_ClearOnce ==
    /\ [](pc \in {"wait", "fetch"} => n_clears <= 1)
    /\ [][IterStep =>
            /\ n_clears' # n_clears =>
                  /\ wait_log'.cleared
                  /\ screen_time # 0 /\ screen_time' = 0
                  /\ elapsed' > screen_time * 1000
                  /\ Blank'
                  /\ pc' = "wait"
            /\ screen_time' # screen_time => n_clears' = n_clears + 1
       ]_vars

\* a call that cleared the screen and then went on to its deadline
C10_Witness ==
    /\ pc = "fetch" /\ wait_exit = "timeout"
    /\ n_clears = 1 /\ Blank
    /\ elapsed > check_interval * 1000

(***************************************************************************)
(* Properties of WrappedTextDisplay (under SpecDisplay).                   *)
(***************************************************************************)
\* max(0, len(lines) - max_lines), written out
MaxOff == IF Len(lines) - max_lines > 0 THEN Len(lines) - max_lines ELSE 0

\* C11: whatever methods were called, 0 <= offset <= max_offset(), and
\* max_offset() is max(0, len(lines) - max_lines).
C11_OffsetInRange ==
    /\ 0 <= offset /\ offset <= MaxOff
    /\ max_offset(Wt) = MaxOff

\* a buffer longer than the display, scrolled to a line that is neither its
\* first nor its last position
C11_Witness ==
    /\ pc = "scroll_next_line"
    /\ 0 < offset /\ offset < MaxOff

\* n calls of scroll_next_line
RECURSIVE ScrollTimes(_, _)
ScrollTimes(wt, n) == IF n = 0 THEN wt ELSE ScrollTimes(scroll_next_line(wt), n - 1)

\* C12: scroll_next_line sets offset to (offset + 1) mod (max_offset() + 1)
\* and nothing else; from any offset max_offset() + 1 calls visit every
\* position once and come back, the position after max_offset() is 0, and
\* a buffer that fits the display stays at 0.
C12_ScrollCycle ==
    /\ [][pc' = "scroll_next_line" =>
            /\ offset' = (offset + 1) % (MaxOff + 1)
            /\ UNCHANGED <<lines, labels, text>>
            /\ offset = MaxOff => offset' = 0
         ]_vars
    /\ [](/\ ScrollTimes(Wt, MaxOff + 1) = Wt
          /\ {ScrollTimes(Wt, k).offset : k \in 0..MaxOff} = 0..MaxOff
          /\ MaxOff = 0 => \A n \in 0..MaxBuf : ScrollTimes(Wt, n).offset = 0)

\* a call that stepped from the last position back to the top of a buffer
\* with more than two positions
C12_Witness ==
    /\ pc = "scroll_next_line"
    /\ offset = 0 /\ MaxOff > 1

\* C13: add_text keeps every line but the last where it is, puts the wrap
\* of (last line + the new text) in place of the last line, and leaves
\* offset = max_offset(), so that on_last_line() holds.
C13_AddTextFrame ==
    [][pc' \in {"add_text", "add_show"} =>
        LET n == Len(lines)
        IN /\ Len(lines') >= n
           /\ \A i \in 1..(n - 1) : lines'[i] = lines[i]
           /\ \E t \in DisplayTexts :
                 SubSeq(lines', n, Len(lines'))
                    = wrap_text_to_pixels(lines[n] \o t, display_width)
           /\ offset' = MaxOff'
           /\ on_last_line(Wt')
           /\ text' = text
    ]_vars

\* text was added to a buffer that no longer fits the display, which is
\* then scrolled to its end
C13_Witness ==
    /\ pc = "add_text"
    /\ Len(lines) > max_lines
    /\ offset = MaxOff /\ offset > 0

\* C14: after refresh() row i shows buffer line offset + i, or nothing past
\* the end of the buffer; refresh writes exactly the rows whose text
\* differs from what they show, so that a refresh right after a refresh
\* writes no row.
C14_RefreshRows ==
    [][pc' \in {"refresh", "show", "add_show"} =>
        /\ \A i \in 0..(max_lines - 1) :
              labels'[i + 1] = IF offset' + i >= Len(lines') THEN <<>>
                               ELSE lines'[offset' + i + 1]
        /\ RefreshWrites(Wt') = {}
        /\ pc' = "refresh" =>
              /\ {i \in 1..max_lines : labels'[i] # labels[i]} = RefreshWrites(Wt)
              /\ UNCHANGED <<lines, offset, text>>
    ]_vars

\* a refresh of a scrolled buffer: the first row shows the line at the
\* offset, not the first line
C14_Witness ==
    /\ pc = "refresh" /\ offset > 0
    /\ labels[1] = lines[offset + 1] /\ labels[1] # lines[1]

(***************************************************************************)
(* Properties of the program, continued (under Spec).                      *)
(***************************************************************************)
\* C15: a fetch that gets a status other than 200 or a wrong signature ends
\* in the handler; from there nothing is fetched, diffed, replaced or
\* alerted, the handler clears the queue, and the only way out is the
\* reload on a pressed event taken from the queue after that.
C15_FailStop ==
    /\ [][pc = "fetch" /\ pc' # "fetch" =>
            ((\/ response'.status # 200
              \/ response'.source # ExpectedSource
              \/ response'.version # ExpectedVersion)
                => /\ pc' = "except"
                   /\ UNCHANGED dataVars /\ n_played' = 0)
         ]_vars
    /\ [][pc = "except" /\ pc' # "except" =>
            pc' = "halted" /\ events' = <<>>
         ]_vars
    /\ [][(pc = "except" \/ pc = "halted") =>
            (IF pc' \in {"except", "halted"}
             THEN UNCHANGED <<dataVars, response, n_played, cycle, displayVars>>
             ELSE /\ pc = "halted" /\ pc' = "startup"
                  /\ events # <<>> /\ Head(events) = "pressed")
         ]_vars

\* halted after a payload of the wrong version, with a baseline in hand and
\* a press in the queue
C15_Witness ==
    /\ pc = "halted"
    /\ response.status = 200 /\ response.version # ExpectedVersion
    /\ saved_objects # <<>>
    /\ events = <<"pressed">>

(***************************************************************************)
(* Properties of check_for_updates, continued (under SpecDiff).            *)
(***************************************************************************)
\* C16: the result lists changed records in the order of latest, each
\* record of latest at most once: it is a subsequence of latest.
C16_ResultInOrder ==
    [][DiffStep =>
        \E f \in [1..Len(updates') -> 1..Len(latest_objects)] :
            /\ \A i, j \in 1..Len(updates') : i < j => f[i] < f[j]
            /\ \A i \in 1..Len(updates') :
                  /\ Raw(updates'[i]) = latest_objects[f[i]]
                  /\ updates'[i] = latest_objects'[f[i]]
    ]_vars

\* both records of latest are reported, in the order of latest, which is
\* not the order of the baseline; the second has a higher ps_cum and a
\* ts_max the baseline did not have
C16_Witness ==
    /\ pc = "diff_done" /\ Len(updates) = 2 /\ Len(saved_objects) = 2
    /\ updates[1].id = saved_objects[2].id
    /\ updates[2].id = saved_objects[1].id
    /\ float(updates[2].ps_cum) > float(saved_objects[1].ps_cum)
    /\ updates[2].ts_max # None /\ saved_objects[1].ts_max = None

C18_ClipOncePerAlert ==
    /\ cycle = "alert" => n_played = (IF alert_wav # None THEN 1 ELSE 0)
    /\ cycle = "idle" => n_played = 0

\* C19: the poll loop starts from an empty baseline, keeps it up to the
\* first diff, and a diff against an empty baseline reports every record of
\* the fetched snapshot with is_new = true and takes the ALERT path iff the
\* snapshot is not empty.
C19_FirstPollAllNew ==
    /\ [][pc = "startup" /\ pc' = "fetch" => saved_objects' = <<>>]_vars
    /\ [][pc = "fetch" => saved_objects' = saved_objects]_vars
    /\ [][RouteStep /\ saved_objects = <<>> =>
            /\ updates' = [i \in 1..Len(latest_objects) |->
                              SetIsNew(latest_objects[i], TRUE)]
            /\ cycle' = "alert" <=> latest_objects # <<>>
         ]_vars

(***************************************************************************)
(* Properties of wait_button_scroll_text, continued (under SpecWait).      *)
(***************************************************************************)
\* C20: an iteration advances the scroll only when the dwell of the display
\* as it stood (long on its last line, short otherwise) has elapsed since
\* the last advance, or since entry for the first advance; so two advances
\* are never less than the short dwell apart.
C20_DwellBetweenAdvances ==
    [][IterStep /\ pc' = "wait" /\ wait_log'.scrolled =>
        /\ elapsed' - scroll_at >= Dwell(Wt)
        /\ elapsed' - scroll_at >= short_wait_ms
    ]_vars

\* C21: an iteration of the wait loop advances the scroll position only when
\* max_offset() > 0 and the scroll deadline has passed at the clock read of
\* the test, it advances by one line and leaves every row redrawn; the
\* offset changes in no other way than by an advance or by the screen
\* clear; on a text that fits, and once the screen clear has blanked the
\* display, the offset is 0 and no advance happens for the rest of the call.
C21_ScrollOnlyWhenDue ==
    /\ [][IterStep =>
            /\ wait_log'.scrolled =>
                  /\ max_offset(Wt) > 0
                  /\ ticks_less(scroll_time, clock')
                  /\ ~wait_log'.cleared
                  /\ offset' = (offset + 1) % (max_offset(Wt) + 1)
                  /\ lines' = lines
                  /\ RefreshWrites(Wt') = {}
            /\ ~wait_log'.scrolled =>
                  \/ offset' = offset
                  \/ wait_log'.cleared /\ offset' = 0
            /\ max_offset(Wt) = 0 => ~wait_log'.scrolled /\ offset' = 0
            /\ n_clears >= 1 => ~wait_log'.scrolled /\ offset' = 0]_vars
    /\ [](pc = "wait" /\ n_clears >= 1 => offset = 0 /\ max_offset(Wt) = 0)

\* the wait scrolled, then the screen clear blanked the display, and the
\* loop has iterated since without an advance
C21_Witness ==
    /\ pc = "wait" /\ n_clears = 1 /\ scroll_at > 0
    /\ ~wait_log.cleared /\ ~wait_log.scrolled
    /\ offset = 0 /\ max_offset(Wt) = 0

(***************************************************************************)
(* Properties of check_for_updates, continued (under SpecDiff).            *)
(***************************************************************************)
\* C22: after check_for_updates on a freshly fetched snapshot, a record of
\* latest carries is_new iff it is in the result; is_new is true exactly
\* when its id was absent from baseline and false exactly when it matched a
\* baseline record and escalated; a record of latest that is not in the
\* result is left as it was fetched, and no other field of any record is
\* written.
C22_IsNewOnlyOnReported ==
    [][DiffStep =>
        /\ Len(latest_objects') = Len(latest_objects)
        /\ \A i \in 1..Len(updates') : HasIsNew(updates'[i])
        /\ \A j \in 1..Len(latest_objects) :
              LET fetched == latest_objects[j]
                  left == latest_objects'[j]
                  in_result == \E i \in 1..Len(updates') : updates'[i] = left
                  matched == fetched.id \in IdsOf(saved_objects)
              IN /\ ~HasIsNew(fetched)
                 /\ Raw(left) = fetched
                 /\ HasIsNew(left) <=> in_result
                 /\ in_result <=> Reported(updates', fetched)
                 /\ (HasIsNew(left) /\ left.is_new) <=> ~matched
                 /\ (HasIsNew(left) /\ ~left.is_new)
                       <=> (matched /\ C2_Escalation(fetched, OldOf(saved_objects, fetched)))
                 /\ ~in_result => left = fetched
    ]_vars

\* a diff of two matched records: one escalated, reported with is_new = False,
\* the other not reported and left without the field
C22_Witness ==
    /\ pc = "diff_done" /\ Len(latest_objects) = 2 /\ Len(updates) = 1
    /\ \A j \in 1..2 : latest_objects[j].id \in IdsOf(saved_objects)
    /\ HasIsNew(latest_objects[1]) /\ ~latest_objects[1].is_new
    /\ updates[1] = latest_objects[1]
    /\ ~HasIsNew(latest_objects[2])

(***************************************************************************)
(* Properties of the button queue (under Spec).                            *)
(***************************************************************************)
\* C23: an event queued before a wait starts never ends that wait: entry
\* to wait_button_scroll_text and entry to the halted wait leave the queue
\* empty, whatever it held; outside the two waits no event is taken from
\* the queue (it only grows or is cleared), so a press made there is lost;
\* a wait ends on the button, and the halted program reloads, only on a
\* pressed event taken from the queue inside that wait.
C23_PressBeforeWaitLost ==
    /\ [][pc = "wait_entry" /\ pc' # "wait_entry" =>
            pc' = "wait" /\ events' = <<>> /\ wait_exit' = "none"]_vars
    /\ [][pc = "except" /\ pc' # "except" =>
            pc' = "halted" /\ events' = <<>>]_vars
    /\ [][pc \notin {"wait", "halted"} =>
            /\ \/ events' = <<>>
               \/ events' = events
               \/ \E e \in {"pressed", "released"} : events' = Append(events, e)
            /\ wait_exit' = "pressed" => wait_exit = "pressed"]_vars
    /\ [][wait_exit # "pressed" /\ wait_exit' = "pressed" =>
            pc = "wait" /\ EventsGet(events) = "pressed"]_vars
    /\ [][pc = "halted" /\ pc' # "halted" =>
            pc' = "startup" /\ EventsGet(events) = "pressed"]_vars

\* a wait that was entered with a pressed event in the queue, the button
\* still held down: the wait goes on with an empty queue
C23_Witness ==
    /\ pc = "wait" /\ wait_log.flushed /\ button_down
    /\ events = <<>> /\ wait_exit = "none"

(***************************************************************************)
(* Properties of the poll loop across cycles (under Spec).                 *)
(***************************************************************************)
\* C24: a record whose id was listed by an earlier fetched snapshot, was
\* not listed by the snapshot fetched before this one, and is listed again
\* by the snapshot just fetched is reported with is_new = True, and the
\* cycle is an ALERT, whatever its ps_cum and ts_max are; the baseline holds
\* the ids of the snapshot fetched last and none of the ids dropped since.
C24_ReturnedIsNew ==
    /\ [][RouteStep =>
            /\ \A j \in 1..Len(latest_objects) :
                  latest_objects[j].id \in lapse.dropped =>
                     /\ latest_objects'[j] = SetIsNew(latest_objects[j], TRUE)
                     /\ \E i \in 1..Len(updates') : updates'[i] = latest_objects'[j]
                     /\ cycle' = "alert"
            /\ IdsOf(saved_objects') = lapse'.last
         ]_vars
    /\ [](lapse.dropped \cap IdsOf(saved_objects) = {})

\* an ALERT wait on a snapshot that lists again an id the snapshot before
\* it did not list; the record is in the result, marked new
C24_Witness ==
    /\ pc = "wait" /\ cycle = "alert" /\ lapse.returned # {}
    /\ \A id \in lapse.returned :
          \E i \in 1..Len(updates) : updates[i].id = id /\ updates[i].is_new

(***************************************************************************)
(* Properties of wait_button_scroll_text, continued (under SpecWait).      *)
(***************************************************************************)
\* code.py reads the clock a second time for the base of timeout; the
\* model lets up to this many milliseconds pass between the two reads
EntrySlack == IF rev = "root" THEN 1000 ELSE 0

\* C25: with the tick counter wrapping at its period, a wait with
\* max_time = check_interval, entered at any counter value, does not return
\* on the deadline before check_interval seconds have passed since entry
\* and does so in the first iteration that starts after they have passed
\* (in firmware/code.py: unless that iteration takes a pressed event); with
\* screen_time = display_time the screen is not cleared before
\* display_time seconds have passed and is cleared in the first iteration
\* after that which does not return.  The loop iterates at least once per
\* half period.
C25_WrapSafeDeadlines ==
    /\ [][IterStep /\ max_time = check_interval =>
            /\ wait_exit' = "timeout" => elapsed' > check_interval * 1000
            /\ (/\ elapsed > check_interval * 1000 + EntrySlack
                /\ rev = "firmware" => ~IsPressed(EventsGet(events)))
                  => wait_exit' = "timeout" /\ pc' # "wait"
         ]_vars
    /\ [][IterStep /\ screen_time = display_time =>
            /\ wait_log'.cleared => elapsed' > display_time * 1000
            /\ (elapsed > display_time * 1000 /\ pc' = "wait")
                  => wait_log'.cleared /\ n_clears' = 1
         ]_vars
    /\ [][IterStep => elapsed' - elapsed < TicksPeriod \div 2]_vars

\* a wait entered 3 s before the counter wrapped, with the poll interval and
\* the idle display time: it cleared the screen and returned on the
\* deadline, the counter having wrapped since entry
C25_Witness ==
    /\ wait_exit = "timeout" /\ max_time = check_interval
    /\ n_clears = 1
    /\ elapsed > check_interval * 1000
    /\ clock = elapsed - 3000

====
